---------------------------- MODULE Spec2Model ----------------------------
(***************************************************************************)
(* Portfolio construction of prediction_model/pricing_algo.py:             *)
(* Black-Litterman blending, Kelly position sizing, macro and risk         *)
(* adjustment, constraint enforcement and quantity conversion.             *)
(*                                                                         *)
(* Python floats are modelled as exact rationals [n, d] in lowest terms    *)
(* with d > 0, so that every property is a property of the arithmetic the  *)
(* code writes down and not of rounding.                                   *)
(***************************************************************************)
EXTENDS Integers, Sequences, FiniteSets, TLC

VARIABLES
    pc,                  \* where the running operation stands
    kelly_call,          \* the arguments of a kelly_criterion call
    kelly_result,        \* its return value, None until it returns
    risk_call,           \* self.capital and the arguments of an apply_risk_constraints call
    risk_result,         \* its return value, None until it returns
    qty_call,            \* the arguments of a calculate_quantities call
    qty_result,          \* its outcome, None until it returns or raises
    bl_call,             \* the arguments of a black_litterman_model call
    bl_result,           \* its outcome, None until it returns or raises
    exec_call,           \* self.capital and the arguments of an execute_algorithm call
    np_random,           \* the state of numpy's global generator
    frame,               \* the locals of execute_algorithm, each None until assigned
    exec_result,         \* the outcome of execute_algorithm, None until it ends
    macro_call,          \* the arguments of an adjust_for_macro_sentiment call
    macro_result,        \* its return value, None until it returns
    eq_call,             \* the arguments of a calculate_market_equilibrium call
    eq_result,           \* its outcome, None until it returns or raises
    hist_call,           \* the arguments of the get_historical_returns calls
    hist_results,        \* the samples those calls have returned, in order
    threads              \* the concurrent execute_algorithm invocations

kellyVars == <<kelly_call, kelly_result>>
riskVars == <<risk_call, risk_result>>
qtyVars == <<qty_call, qty_result>>
blVars == <<bl_call, bl_result>>
execVars == <<exec_call, np_random, frame, exec_result>>
macroVars == <<macro_call, macro_result>>
eqVars == <<eq_call, eq_result>>
histVars == <<hist_call, hist_results>>
moreVars == <<macroVars, eqVars, histVars, threads>>
vars == <<pc, kellyVars, riskVars, qtyVars, blVars, execVars, moreVars>>

(***************************************************************************)
(* Exact rational arithmetic.                                              *)
(***************************************************************************)
RECURSIVE GCD(_, _)
GCD(a, b) == IF b = 0 THEN a ELSE GCD(b, a % b)

IAbs(i) == IF i < 0 THEN -i ELSE i

\* The rational n/d (d # 0) in lowest terms with a positive denominator.
Rat(n, d) ==
    LET g == GCD(IAbs(n), IAbs(d))
        s == IF d < 0 THEN -1 ELSE 1
    IN  [n |-> s * (n \div g), d |-> s * (d \div g)]

Zero == [n |-> 0, d |-> 1]
One == [n |-> 1, d |-> 1]
Int2Rat(i) == [n |-> i, d |-> 1]

Neg(x) == [n |-> -x.n, d |-> x.d]
Abs(x) == [n |-> IAbs(x.n), d |-> x.d]

Add(x, y) ==
    LET g == GCD(x.d, y.d)
    IN  Rat(x.n * (y.d \div g) + y.n * (x.d \div g), (x.d \div g) * y.d)

Sub(x, y) == Add(x, Neg(y))

Mul(x, y) ==
    LET g1 == GCD(IAbs(x.n), y.d)
        g2 == GCD(IAbs(y.n), x.d)
    IN  IF x.n = 0 \/ y.n = 0 THEN Zero
        ELSE [n |-> (x.n \div g1) * (y.n \div g2),
              d |-> (x.d \div g2) * (y.d \div g1)]

\* x / y for y # 0 (the callers guard the division as the code does).
Div(x, y) ==
    Mul(x, IF y.n < 0 THEN [n |-> -y.d, d |-> -y.n] ELSE [n |-> y.d, d |-> y.n])

Lt(x, y) == Sub(x, y).n < 0
Le(x, y) == Sub(x, y).n <= 0
Gt(x, y) == Lt(y, x)
Ge(x, y) == Le(y, x)

\* Python's max(a, b) and min(a, b) on two numbers.
Max(x, y) == IF Gt(y, x) THEN y ELSE x
Min(x, y) == IF Lt(y, x) THEN y ELSE x

\* -1, 0 or 1.
Sign(x) == IF x.n > 0 THEN 1 ELSE IF x.n < 0 THEN -1 ELSE 0

\* sum(d.values()) of a symbol -> number map, over the symbols S.
RECURSIVE SumOver(_, _)
SumOver(f, S) ==
    IF S = {} THEN Zero
    ELSE LET s == CHOOSE x \in S : TRUE
         IN  Add(f[s], SumOver(f, S \ {s}))

SumValues(f) == SumOver(f, DOMAIN f)

(***************************************************************************)
(* The asset universe: the symbols of id_map, in its order.                *)
(***************************************************************************)
Universe ==
    <<"BTC", "ETH", "SOL", "XRP", "BNB", "DOGE", "ADA", "AVAX", "LINK", "MATIC">>

\* The first k symbols, as a list and as a set.
SymbolList(k) == SubSeq(Universe, 1, k)
SymbolSet(k) == {Universe[i] : i \in 1..k}

\* The value of a variable that the running operation does not use.
None == "None"

\* No call of the operation is in progress.
KellyIdle == kelly_call = None /\ kelly_result = None
RiskIdle == risk_call = None /\ risk_result = None
QuantityIdle == qty_call = None /\ qty_result = None
BLIdle == bl_call = None /\ bl_result = None
ExecIdle ==
    exec_call = None /\ np_random = None /\ frame = None /\ exec_result = None
MacroIdle == macro_call = None /\ macro_result = None
EquilibriumIdle == eq_call = None /\ eq_result = None
ReturnsIdle == hist_call = None /\ hist_results = None
ThreadsIdle == threads = None
MoreIdle == MacroIdle /\ EquilibriumIdle /\ ReturnsIdle /\ ThreadsIdle

\* The outcome of a call: the exception it raised (None when it returned) and
\* the value it returned.
Returned(v) == [raised |-> None, value |-> v]
Raised(e) == [raised |-> e, value |-> None]

(***************************************************************************)
(* Matrices over the rationals: [r, c, e] with e[i][j] the entry of row i   *)
(* and column j.  Vectors are sequences.                                    *)
(***************************************************************************)
RECURSIVE ToSeq(_, _)
\* The sequence <<f[1], ..., f[k]>>.
ToSeq(f, k) == IF k = 0 THEN << >> ELSE Append(ToSeq(f, k - 1), f[k])

Matrix(rows, cols, Entry(_, _)) ==
    [r |-> rows, c |-> cols,
     e |-> ToSeq([i \in 1..rows |-> ToSeq([j \in 1..cols |-> Entry(i, j)], cols)],
                 rows)]

RECURSIVE SumTo(_, _)
\* term[1] + ... + term[k]
SumTo(term, k) == IF k = 0 THEN Zero ELSE Add(SumTo(term, k - 1), term[k])

Transpose(A) == LET E(i, j) == A.e[j][i] IN Matrix(A.c, A.r, E)

\* A @ B for A.c = B.r.
MatMul(A, B) ==
    LET E(i, j) == SumTo([k \in 1..A.c |-> Mul(A.e[i][k], B.e[k][j])], A.c)
    IN  Matrix(A.r, B.c, E)

\* A @ v for a vector v of length A.c.
MatVec(A, v) ==
    ToSeq([i \in 1..A.r |-> SumTo([k \in 1..A.c |-> Mul(A.e[i][k], v[k])], A.c)],
          A.r)

MatAdd(A, B) == LET E(i, j) == Add(A.e[i][j], B.e[i][j]) IN Matrix(A.r, A.c, E)
VecAdd(u, v) == ToSeq([i \in 1..Len(u) |-> Add(u[i], v[i])], Len(u))
Scale(x, A) == LET E(i, j) == Mul(x, A.e[i][j]) IN Matrix(A.r, A.c, E)

\* A without row i and column j.
Minor(A, i, j) ==
    LET E(a, b) == A.e[IF a < i THEN a ELSE a + 1][IF b < j THEN b ELSE b + 1]
    IN  Matrix(A.r - 1, A.c - 1, E)

RECURSIVE Det(_)
\* The determinant of a square matrix, expanded along the first row.
Det(A) ==
    IF A.r = 0 THEN One
    ELSE SumTo([j \in 1..A.c |->
                   LET t == Mul(A.e[1][j], Det(Minor(A, 1, j)))
                   IN  IF j % 2 = 1 THEN t ELSE Neg(t)],
               A.c)

LCM(a, b) == (a \div GCD(a, b)) * b

RECURSIVE FoldSeq(_, _, _)
\* Op(...Op(Op(base, seq[1]), seq[2])..., seq[Len(seq)])
FoldSeq(Op(_, _), base, seq) ==
    IF seq = << >> THEN base
    ELSE FoldSeq(Op, Op(base, Head(seq)), Tail(seq))

\* The entries of A, row after row.
Entries(A) == LET Cat(x, y) == x \o y IN FoldSeq(Cat, << >>, A.e)

\* A = Factor(A) * Integral(A), with Integral(A) a matrix of integers that
\* have no common divisor.
CommonDen(A) == LET Op(l, x) == LCM(l, x.d) IN FoldSeq(Op, 1, Entries(A))
CommonNum(A) ==
    LET L == CommonDen(A)
        Op(g, x) == GCD(g, IAbs(x.n) * (L \div x.d))
        g == FoldSeq(Op, 0, Entries(A))
    IN  IF g = 0 THEN 1 ELSE g
Factor(A) == Rat(CommonNum(A), CommonDen(A))
Integral(A) ==
    LET L == CommonDen(A)
        g == CommonNum(A)
        E(i, j) == Int2Rat((A.e[i][j].n * (L \div A.e[i][j].d)) \div g)
    IN  Matrix(A.r, A.c, E)

\* np.linalg.inv raises LinAlgError exactly on a singular matrix ...
LinAlgError == "LinAlgError"
singular(A) == Det(Integral(A)) = Zero

\* ... and returns the inverse of a regular one: the adjugate over the
\* determinant.
inv(A) ==
    LET Z == Integral(A)
        scale == Div(One, Mul(Factor(A), Det(Z)))
        E(i, j) ==
            LET m == Mul(scale, Det(Minor(Z, j, i)))
            IN  IF (i + j) % 2 = 0 THEN m ELSE Neg(m)
    IN  Matrix(A.r, A.c, E)

\* np.diag of a list.
Diag(d) ==
    LET E(i, j) == IF i = j THEN d[i] ELSE Zero IN Matrix(Len(d), Len(d), E)

\* list.index
IndexOf(seq, x) == CHOOSE i \in 1..Len(seq) : seq[i] = x
InList(seq, x) == \E i \in 1..Len(seq) : seq[i] = x

(***************************************************************************)
(* The instance's configuration scalars, at the defaults of __init__.      *)
(***************************************************************************)
risk_free_rate == Rat(1, 25)
tau == Rat(1, 40)

(***************************************************************************)
(* black_litterman_model                                                   *)
(***************************************************************************)
\* list(views.keys()): the keys of views, in the order of the universe.
RECURSIVE KeysFrom(_, _)
KeysFrom(d, i) ==
    IF i > Len(Universe) THEN << >>
    ELSE (IF Universe[i] \in DOMAIN d THEN <<Universe[i]>> ELSE << >>)
         \o KeysFrom(d, i + 1)
Keys(d) == KeysFrom(d, 1)

\* view_confidences.get(symbol, 0.5)
confidence_of(view_confidences, symbol) ==
    IF symbol \in DOMAIN view_confidences THEN view_confidences[symbol]
    ELSE Rat(1, 2)

\* uncertainty = (1 - confidence) * tau * variance if variance > 0 else 0.01
uncertainty(confidence, variance) ==
    IF Gt(variance, Zero) THEN Mul(Mul(Sub(One, confidence), tau), variance)
    ELSE Rat(1, 100)

\* The keys of views that are symbols of the list: the views that get an
\* entry of omega_diag.
RECURSIVE Listed(_, _)
Listed(view_keys, symbols) ==
    IF view_keys = << >> THEN << >>
    ELSE (IF InList(symbols, Head(view_keys)) THEN <<Head(view_keys)>> ELSE << >>)
         \o Listed(Tail(view_keys), symbols)

\* Omega = np.diag(omega_diag): one entry per view on a symbol of the list.
view_uncertainty(covariance_matrix, views, view_confidences, symbols) ==
    LET listed == Listed(Keys(views), symbols)
    IN  Diag(ToSeq([i \in 1..Len(listed) |->
                       LET idx == IndexOf(symbols, listed[i])
                       IN  uncertainty(confidence_of(view_confidences, listed[i]),
                                       covariance_matrix.e[idx][idx])],
                   Len(listed)))

\* The except clause: print a warning and return equilibrium_returns.
on_singular_raise(equilibrium_returns) == Raised(LinAlgError)
on_singular(equilibrium_returns) == Returned(equilibrium_returns)

\* P: one row per key of views, with a 1 in the column of the key's symbol
\* when the symbol is in the list.
view_matrix_every_column(views, view_keys, symbols) ==
    [r |-> Len(view_keys), c |-> Len(symbols),
     e |-> ToSeq([i \in 1..Len(view_keys) |->
                     ToSeq([j \in 1..Len(symbols) |->
                               IF InList(symbols, view_keys[i])
                               THEN One ELSE Zero],
                           Len(symbols))],
                 Len(view_keys))]
view_matrix(views, view_keys, symbols) ==
    [r |-> Len(view_keys), c |-> Len(symbols),
     e |-> ToSeq([i \in 1..Len(view_keys) |->
                     ToSeq([j \in 1..Len(symbols) |->
                               IF /\ InList(symbols, view_keys[i])
                                  /\ IndexOf(symbols, view_keys[i]) = j
                               THEN One ELSE Zero],
                           Len(symbols))],
                 Len(view_keys))]

\* Q: the view return of every key of views whose symbol is in the list.
view_returns(views, view_keys, symbols) ==
    ToSeq([i \in 1..Len(view_keys) |->
              IF InList(symbols, view_keys[i]) THEN views[view_keys[i]]
              ELSE Zero],
          Len(view_keys))

\* expected_returns = M @ (inv(tau_sigma) @ pi + P.T @ inv(Omega) @ Q), with
\* M = inv(M_inv).
posterior(equilibrium_returns, inv_tau_sigma, PtOi, Q, M_inv) ==
    IF singular(M_inv) THEN on_singular(equilibrium_returns)
    ELSE Returned(MatVec(inv(M_inv),
                         VecAdd(MatVec(inv_tau_sigma, equilibrium_returns),
                                MatVec(PtOi, Q))))

\* M_inv = inv(tau_sigma) + P.T @ inv(Omega) @ P
blend(equilibrium_returns, inv_tau_sigma, PtOi, P, Q) ==
    posterior(equilibrium_returns, inv_tau_sigma, PtOi, Q,
              MatAdd(inv_tau_sigma, MatMul(PtOi, P)))

\* The try block: inv(tau_sigma) is evaluated first, then inv(Omega), then
\* the product P.T @ inv(Omega), which raises ValueError when omega_diag has
\* fewer entries than views has keys.
invert_and_blend(equilibrium_returns, tau_sigma, Omega, P, Q) ==
    IF singular(tau_sigma) THEN on_singular(equilibrium_returns)
    ELSE IF singular(Omega) THEN on_singular(equilibrium_returns)
    ELSE IF P.r # Omega.r THEN Raised("ValueError")
    ELSE blend(equilibrium_returns, inv(tau_sigma),
               MatMul(Transpose(P), inv(Omega)), P, Q)

black_litterman_model(equilibrium_returns, covariance_matrix, views, view_confidences, symbols) ==
    invert_and_blend(
        equilibrium_returns,
        Scale(tau, covariance_matrix),
        view_uncertainty(covariance_matrix, views, view_confidences, symbols),
        view_matrix(views, Keys(views), symbols),
        view_returns(views, Keys(views), symbols))

(***************************************************************************)
(* calculate_market_equilibrium                                            *)
(***************************************************************************)
\* market_caps is the empty map when no market caps are given (None and {}
\* are both false in "if market_caps").  The weights are computed symbol by
\* symbol in the order of prices.keys(): a symbol without a cap is a KeyError,
\* a total of 0 a ZeroDivisionError.
RECURSIVE weights_failure(_, _, _)
weights_failure(keys, market_caps, total_cap) ==
    IF keys = << >> THEN None
    ELSE IF Head(keys) \notin DOMAIN market_caps THEN "KeyError"
    ELSE IF total_cap = Zero THEN "ZeroDivisionError"
    ELSE weights_failure(Tail(keys), market_caps, total_cap)

calculate_market_equilibrium(prices, market_caps) ==
    LET keys == Keys(prices)
        n_assets == Len(keys)
        failure == IF DOMAIN market_caps = {} THEN None
                   ELSE weights_failure(keys, market_caps, SumValues(market_caps))
    IN  IF failure # None THEN Raised(failure)
        ELSE Returned(ToSeq([i \in 1..n_assets |-> Add(risk_free_rate, Rat(1, 20))],
                            n_assets))

\* An equilibrium call is given the prices of at most MaxEquilibriumAssets
\* symbols; the market caps cover any part of them.
MaxEquilibriumAssets == 2

MarketCaps == {Int2Rat(v) : v \in {-5, 0, 5}}
Quotes == {Int2Rat(v) : v \in {0, 3, 50000}}
MarketCapMaps(S) == UNION {[D -> MarketCaps] : D \in SUBSET S}

EquilibriumInit ==
    /\ pc = "eq_call"
    /\ \E k \in 0..MaxEquilibriumAssets :
           eq_call \in [prices : [SymbolSet(k) -> Quotes],
                        market_caps : MarketCapMaps(SymbolSet(k))]
    /\ eq_result = None
    /\ KellyIdle /\ RiskIdle /\ QuantityIdle /\ BLIdle /\ ExecIdle
    /\ MacroIdle /\ ReturnsIdle /\ ThreadsIdle

EquilibriumReturn ==
    /\ pc = "eq_call"
    /\ pc' = "eq_done"
    /\ eq_result' = calculate_market_equilibrium(eq_call.prices,
                                                 eq_call.market_caps)
    /\ UNCHANGED <<eq_call, kellyVars, riskVars, qtyVars, blVars, execVars,
                   macroVars, histVars, threads>>

EquilibriumNext == EquilibriumReturn

SpecEquilibrium == EquilibriumInit /\ [][EquilibriumNext]_vars

(***************************************************************************)
(* kelly_criterion                                                         *)
(***************************************************************************)
\* win_prob = max(0.5, min(0.95, win_probability))
win_prob_unbounded(win_probability) == win_probability
bounded_win_prob(win_probability) ==
    Max(Rat(1, 2), Min(Rat(19, 20), win_probability))

\* odds = abs_return / (1 - abs_return) if abs_return < 1 else abs_return
odds_plain(abs_return) == abs_return
kelly_odds(abs_return) ==
    IF Lt(abs_return, One) THEN Div(abs_return, Sub(One, abs_return))
    ELSE abs_return

\* volatility_adjustment = max(0.1, 1 - volatility / 2)
volatility_no_floor(volatility) == Sub(One, Div(volatility, Int2Rat(2)))
volatility_adjustment(volatility) ==
    Max(Rat(1, 10), Sub(One, Div(volatility, Int2Rat(2))))

\* kelly_fraction = max(0, min(kelly_fraction, 0.25))
cap_no_upper(kelly_fraction) == Max(Zero, kelly_fraction)
cap_no_lower(kelly_fraction) == Min(kelly_fraction, Rat(1, 4))
cap_kelly_fraction(kelly_fraction) == Max(Zero, Min(kelly_fraction, Rat(1, 4)))

\* if is_short: kelly_fraction = -kelly_fraction
direction_always_long(is_short, kelly_fraction) == kelly_fraction
apply_direction(is_short, kelly_fraction) ==
    IF is_short THEN Neg(kelly_fraction) ELSE kelly_fraction

\* if abs_return == 0: return 0.0
no_edge_full_slot(base_capital) == Mul(base_capital, Rat(1, 4))
no_edge_return(base_capital) == Zero

kelly_criterion(expected_return, win_probability, volatility, base_capital) ==
    LET win_prob == bounded_win_prob(win_probability)
        lose_prob == Sub(One, win_prob)
        is_short == Lt(expected_return, Zero)
        abs_return == Abs(expected_return)
    IN  IF abs_return = Zero THEN no_edge_return(base_capital)
        ELSE LET odds == kelly_odds(abs_return)
                 raw == Div(Sub(Mul(win_prob, odds), lose_prob), odds)
                 damped == Mul(raw, volatility_adjustment(volatility))
                 kelly_fraction == apply_direction(is_short, cap_kelly_fraction(damped))
             IN  Mul(base_capital, kelly_fraction)

\* The grid of expected returns reaches from -MaxReturnSteps/20 to MaxReturnSteps/20.
MaxReturnSteps == 24

ExpectedReturns == {Rat(k, 20) : k \in -MaxReturnSteps..MaxReturnSteps}
WinProbabilities ==
    {Rat(k, 20) : k \in {-2, 0, 6, 9, 10, 12, 16, 18, 19, 20, 24}}
Volatilities == {Rat(k, 10) : k \in {-10, 0, 5, 10, 17, 18, 19, 20, 40}}
Capitals == {Int2Rat(c) : c \in {0, 1000, 10000}}

KellyInit ==
    /\ kelly_call \in [expected_return : ExpectedReturns,
                       win_probability : WinProbabilities,
                       volatility : Volatilities,
                       base_capital : Capitals]
    /\ kelly_result = None
    /\ pc = "kelly_call"
    /\ RiskIdle /\ QuantityIdle /\ BLIdle /\ ExecIdle /\ MoreIdle

KellyReturn ==
    /\ pc = "kelly_call"
    /\ pc' = "kelly_done"
    /\ kelly_result' = kelly_criterion(kelly_call.expected_return,
                                       kelly_call.win_probability,
                                       kelly_call.volatility,
                                       kelly_call.base_capital)
    /\ UNCHANGED <<kelly_call, riskVars, qtyVars, blVars, execVars, moreVars>>

KellyNext == KellyReturn

SpecKelly == KellyInit /\ [][KellyNext]_vars

(***************************************************************************)
(* apply_risk_constraints                                                  *)
(***************************************************************************)
\* The step function of user_risk_level.
risk_multiplier_right_closed(user_risk_level) ==
    IF Le(user_risk_level, Rat(1, 4)) THEN Rat(1, 4)
    ELSE IF Le(user_risk_level, Rat(1, 2)) THEN Rat(1, 2)
    ELSE IF Le(user_risk_level, Rat(3, 4)) THEN One
    ELSE Rat(3, 2)
risk_multiplier(user_risk_level) ==
    IF Lt(user_risk_level, Rat(1, 4)) THEN Rat(1, 4)
    ELSE IF Lt(user_risk_level, Rat(1, 2)) THEN Rat(1, 2)
    ELSE IF Lt(user_risk_level, Rat(3, 4)) THEN One
    ELSE Rat(3, 2)

\* adjusted_positions = {symbol: size * risk_multiplier ...}
risk_scaled(positions, user_risk_level) ==
    [symbol \in DOMAIN positions |->
        Mul(positions[symbol], risk_multiplier(user_risk_level))]

max_position_looser(capital) == Mul(capital, Rat(2, 5))
max_position_per_asset(capital) == Mul(capital, Rat(3, 10))
min_position(capital) == Mul(capital, Rat(1, 100))

\* The per-asset branch of the loop over adjusted_positions.
clamp_drop_sign(size, capital) ==
    IF Gt(Abs(size), max_position_per_asset(capital))
    THEN max_position_per_asset(capital)
    ELSE IF Lt(Abs(size), min_position(capital)) THEN Zero
    ELSE size
clamp_position(size, capital) ==
    IF Gt(Abs(size), max_position_per_asset(capital))
    THEN LET sign == IF Gt(size, Zero) THEN 1 ELSE -1
         IN  Mul(Int2Rat(sign), max_position_per_asset(capital))
    ELSE IF Lt(Abs(size), min_position(capital)) THEN Zero
    ELSE size

clamp_positions(adjusted_positions, capital) ==
    [symbol \in DOMAIN adjusted_positions |->
        clamp_position(adjusted_positions[symbol], capital)]

\* The book-level bound: scale by capital / total_allocated when the signed
\* total exceeds the capital.
rescale_never(adjusted_positions, capital) == adjusted_positions
rescale_book(adjusted_positions, capital) ==
    LET total_allocated == SumValues(adjusted_positions)
    IN  IF Gt(total_allocated, capital)
        THEN LET scale_factor == Div(capital, total_allocated)
             IN  [symbol \in DOMAIN adjusted_positions |->
                     Mul(adjusted_positions[symbol], scale_factor)]
        ELSE adjusted_positions

\* scale_factor = self.capital / total_allocated divides by 0 when the
\* clamped positions sum to 0 and the capital is negative: a float division
\* that raises ZeroDivisionError.
rescale_fails(adjusted_positions, capital) ==
    /\ Gt(SumValues(adjusted_positions), capital)
    /\ SumValues(adjusted_positions) = Zero

clamp_before_multiplier(capital, positions, user_risk_level) ==
    rescale_book(
        risk_scaled(clamp_positions(positions, capital), user_risk_level),
        capital)
apply_risk_constraints(capital, positions, user_risk_level) ==
    rescale_book(
        clamp_positions(risk_scaled(positions, user_risk_level), capital),
        capital)

\* A book holds at most MaxBook symbols.
MaxBook == 5

PositionSizes == {Int2Rat(v) : v \in {-40, 0, 1, 40}}
RiskLevels == {Rat(k, 20) : k \in {2, 5, 8, 10, 12, 15, 18}}
BookCapitals == {Int2Rat(c) : c \in {0, 100}}
Books == UNION {[SymbolSet(k) -> PositionSizes] : k \in 0..MaxBook}

RiskInit ==
    /\ pc = "risk_call"
    /\ risk_call \in [capital : BookCapitals,
                      positions : Books,
                      user_risk_level : RiskLevels]
    /\ risk_result = None
    /\ KellyIdle /\ QuantityIdle /\ BLIdle /\ ExecIdle /\ MoreIdle

RiskReturn ==
    /\ pc = "risk_call"
    /\ pc' = "risk_done"
    /\ risk_result' = apply_risk_constraints(risk_call.capital,
                                             risk_call.positions,
                                             risk_call.user_risk_level)
    /\ UNCHANGED <<risk_call, kellyVars, qtyVars, blVars, execVars, moreVars>>

RiskNext == RiskReturn

SpecRisk == RiskInit /\ [][RiskNext]_vars

(***************************************************************************)
(* calculate_quantities                                                    *)
(***************************************************************************)
\* position_usd != 0 and symbol in prices and prices[symbol] > 0
priced_or_listed(symbol, position_usd, prices) ==
    position_usd # Zero /\ symbol \in DOMAIN prices
convertible(symbol, position_usd, prices) ==
    position_usd # Zero /\ symbol \in DOMAIN prices /\ Gt(prices[symbol], Zero)

\* quantity = position_usd / prices[symbol]; a float division by 0 raises.
quantity_times_price(position_usd, price) == Mul(position_usd, price)
quantity_unsigned(position_usd, price) ==
    IF price = Zero THEN "ZeroDivisionError" ELSE Div(Abs(position_usd), price)
quantity_of(position_usd, price) ==
    IF price = Zero THEN "ZeroDivisionError" ELSE Div(position_usd, price)

calculate_quantities(positions, prices) ==
    LET kept == {symbol \in DOMAIN positions :
                    convertible(symbol, positions[symbol], prices)}
    IN  IF \E symbol \in kept : prices[symbol] = Zero
        THEN Raised("ZeroDivisionError")
        ELSE Returned([symbol \in kept |->
                          quantity_of(positions[symbol], prices[symbol])])

\* A quantity conversion is given at most MaxQuantitySymbols positions.
MaxQuantitySymbols == 2

Prices == {Int2Rat(v) : v \in {-2, 0, 3, 50000}}
PriceMaps(S) == UNION {[D -> Prices] : D \in SUBSET S}

QuantityInit ==
    /\ pc = "qty_call"
    /\ \E k \in 0..MaxQuantitySymbols :
           qty_call \in [positions : [SymbolSet(k) -> PositionSizes],
                         prices : PriceMaps(SymbolSet(k))]
    /\ qty_result = None
    /\ KellyIdle /\ RiskIdle /\ BLIdle /\ ExecIdle /\ MoreIdle

QuantityReturn ==
    /\ pc = "qty_call"
    /\ pc' = "qty_done"
    /\ qty_result' = calculate_quantities(qty_call.positions, qty_call.prices)
    /\ UNCHANGED <<qty_call, kellyVars, riskVars, blVars, execVars, moreVars>>

QuantityNext == QuantityReturn

SpecQuantity == QuantityInit /\ [][QuantityNext]_vars

(***************************************************************************)
(* adjust_for_macro_sentiment                                              *)
(***************************************************************************)
\* macro_multiplier = max(0.3, min(1.8, 1.0 + macro_sentiment * 0.5))
macro_multiplier_unclamped(macro_sentiment) ==
    Add(One, Mul(macro_sentiment, Rat(1, 2)))
macro_multiplier_falling(macro_sentiment) ==
    Max(Rat(3, 10), Min(Rat(9, 5), Sub(One, Mul(macro_sentiment, Rat(1, 2)))))
macro_multiplier(macro_sentiment) ==
    Max(Rat(3, 10), Min(Rat(9, 5), Add(One, Mul(macro_sentiment, Rat(1, 2)))))

adjust_for_macro_sentiment(positions, macro_sentiment) ==
    [symbol \in DOMAIN positions |->
        Mul(positions[symbol], macro_multiplier(macro_sentiment))]

\* The grid of macro sentiments reaches from -MaxMacroSteps/10 to
\* MaxMacroSteps/10, beyond the nominal range [-1, 1] on both sides.
MaxMacroSteps == 20
\* A macro adjustment is given at most MaxMacroBook positions.
MaxMacroBook == 2

MacroLevels == {Rat(k, 10) : k \in -MaxMacroSteps..MaxMacroSteps}

MacroInit ==
    /\ pc = "macro_call"
    /\ \E k \in 0..MaxMacroBook :
           macro_call \in [positions : [SymbolSet(k) -> PositionSizes],
                           macro_sentiment : MacroLevels]
    /\ macro_result = None
    /\ KellyIdle /\ RiskIdle /\ QuantityIdle /\ BLIdle /\ ExecIdle
    /\ EquilibriumIdle /\ ReturnsIdle /\ ThreadsIdle

MacroReturn ==
    /\ pc = "macro_call"
    /\ pc' = "macro_done"
    /\ macro_result' = adjust_for_macro_sentiment(macro_call.positions,
                                                  macro_call.macro_sentiment)
    /\ UNCHANGED <<macro_call, kellyVars, riskVars, qtyVars, blVars, execVars,
                   eqVars, histVars, threads>>

MacroNext == MacroReturn

SpecMacro == MacroInit /\ [][MacroNext]_vars

(***************************************************************************)
(* get_crypto_prices                                                       *)
(***************************************************************************)
\* The USD price the price service quotes for a symbol it knows.
QuotedPrice(symbol) ==
    IF symbol = "BTC" THEN Int2Rat(50000)
    ELSE IF symbol = "ETH" THEN Int2Rat(3000)
    ELSE Int2Rat(150)

\* The response lists the symbols of quoted; every other symbol is priced 0.0.
get_crypto_prices(symbols, quoted) ==
    [symbol \in {symbols[i] : i \in 1..Len(symbols)} |->
        IF symbol \in quoted THEN QuotedPrice(symbol) ELSE Zero]

\* The except branch: mock prices 1000.0 * (i + 1), i counting from 0.
mock_prices(symbols) ==
    [symbol \in {symbols[i] : i \in 1..Len(symbols)} |->
        Int2Rat(1000 * IndexOf(symbols, symbol))]

(***************************************************************************)
(* numpy's global generator, get_historical_returns and                    *)
(* calculate_covariance_matrix.  The generator is a 16-state congruential  *)
(* generator, and a standard normal draw is one of -1 and 1.               *)
(***************************************************************************)
\* np.random.seed(seed)
seed_ignored(seed) == np_random
seed_state(seed) == seed % 16

next_state(state) == (9 * state + 11) % 16

\* np.random.normal(loc, scale) read off the generator state after the draw.
normal(loc, scale, state) ==
    Add(loc, Mul(scale, Int2Rat(IF state % 3 = 0 THEN 1 ELSE -1)))

RECURSIVE advance(_, _)
\* The generator state after k draws.
advance(state, k) == IF k = 0 THEN state ELSE next_state(advance(state, k - 1))

\* np.random.normal(0.001, 0.05, days) from the given state.
normal_sample(state, days) ==
    ToSeq([i \in 1..days |-> normal(Rat(1, 1000), Rat(1, 20), advance(state, i))],
          days)

\* The DataFrame of returns: the generator is seeded with 42 and every symbol
\* draws its days returns in turn.
get_historical_returns(symbols, days) ==
    ToSeq([i \in 1..Len(symbols) |->
              normal_sample(advance(seed_state(42), (i - 1) * days), days)],
          Len(symbols))

\* The generator state that get_historical_returns leaves behind.
state_after_returns(symbols, days) == advance(seed_state(42), Len(symbols) * days)

Mean(x) == Div(SumTo(x, Len(x)), Int2Rat(Len(x)))

\* The sample covariance (pandas: ddof = 1) of two series of the same length.
sample_cov(x, y) ==
    LET mx == Mean(x)
        my == Mean(y)
    IN  Div(SumTo([i \in 1..Len(x) |-> Mul(Sub(x[i], mx), Sub(y[i], my))], Len(x)),
            Int2Rat(Len(x) - 1))

\* returns_df.cov().values * 252
calculate_covariance_matrix(returns_df) ==
    LET E(i, j) == Mul(sample_cov(returns_df[i], returns_df[j]), Int2Rat(252))
    IN  Matrix(Len(returns_df), Len(returns_df), E)

RECURSIVE Newton(_, _)
Newton(x, g) ==
    LET h == (g + x \div g) \div 2 IN IF h >= g THEN g ELSE Newton(x, h)

\* The integer square root of x >= 0.
ISqrt(x) == IF x = 0 THEN 0 ELSE Newton(x, x)

\* np.sqrt, rounded down to two decimals.
Sqrt(x) == Rat(ISqrt((x.n * 10000) \div x.d), 100)

(***************************************************************************)
(* Black-Litterman calls: a universe of up to MaxViewAssets symbols, a      *)
(* symmetric positive semi-definite covariance matrix (singular ones        *)
(* included), the flat equilibrium vector, and views on symbols of the      *)
(* universe and possibly on one symbol outside it.                          *)
(***************************************************************************)
MaxViewAssets == 2

CovEntries == {Rat(2 * k, 5) : k \in {-1, 0, 1, 4}}

RECURSIVE SortedSeq(_)
SortedSeq(S) ==
    IF S = {} THEN << >>
    ELSE LET m == CHOOSE x \in S : \A y \in S : x <= y
         IN  <<m>> \o SortedSeq(S \ {m})

\* The principal submatrix of A on the index set S.
Principal(A, S) ==
    LET idx == SortedSeq(S)
        E(i, j) == A.e[idx[i]][idx[j]]
    IN  Matrix(Len(idx), Len(idx), E)

PositiveSemiDefinite(A) ==
    \A S \in SUBSET (1..A.r) : Ge(Det(Principal(A, S)), Zero)

CovMatrices(n) ==
    LET Upper == {ij \in (1..n) \X (1..n) : ij[1] <= ij[2]}
        Sym(f) == LET E(i, j) == IF i <= j THEN f[<<i, j>>] ELSE f[<<j, i>>]
                  IN  Matrix(n, n, E)
    IN  {A \in {Sym(f) : f \in [Upper -> CovEntries]} : PositiveSemiDefinite(A)}

\* A recommendation: an expected return and, when c is not empty, a confidence.
ViewOptions ==
    {[v |-> Rat(-1, 10), c |-> <<Rat(3, 5)>>],
     [v |-> Rat(1, 2), c |-> <<One>>],
     [v |-> Rat(-1, 10), c |-> << >>]}

FlatPrices(n) == [symbol \in SymbolSet(n) |-> Int2Rat(1000)]

BLInit ==
    /\ pc = "bl_call"
    /\ \E n \in 1..MaxViewAssets :
       \E cov \in CovMatrices(n), D \in SUBSET SymbolSet(n + 1) :
       \E f \in [D -> ViewOptions] :
           /\ Universe[n + 1] \in D => f[Universe[n + 1]].c = << >>
           /\ bl_call =
                  [equilibrium_returns |->
                       calculate_market_equilibrium(FlatPrices(n), << >>).value,
                   covariance_matrix |-> cov,
                   views |-> [symbol \in D |-> f[symbol].v],
                   view_confidences |->
                       [symbol \in {x \in D : f[x].c # << >>} |-> f[symbol].c[1]],
                   symbols |-> SymbolList(n)]
    /\ bl_result = None
    /\ KellyIdle /\ RiskIdle /\ QuantityIdle /\ ExecIdle /\ MoreIdle

BLReturn ==
    /\ pc = "bl_call"
    /\ pc' = "bl_done"
    /\ bl_result' = black_litterman_model(bl_call.equilibrium_returns,
                                          bl_call.covariance_matrix,
                                          bl_call.views,
                                          bl_call.view_confidences,
                                          bl_call.symbols)
    /\ UNCHANGED <<bl_call, kellyVars, riskVars, qtyVars, execVars, moreVars>>

BLNext == BLReturn

SpecBL == BLInit /\ [][BLNext]_vars

(***************************************************************************)
(* execute_algorithm, stage by stage.                                      *)
(***************************************************************************)
\* A run handles at most MaxAssets recommendations, and get_historical_returns
\* draws Days returns per symbol (30 in the code).
MaxAssets == 2
Days == 3

Recommendations ==
    {[expected_return |-> Rat(1, 2), confidence |-> Rat(9, 10)],
     [expected_return |-> Rat(-1, 2), confidence |-> Rat(9, 10)],
     [expected_return |-> Rat(1, 10), confidence |-> Rat(4, 5)],
     [expected_return |-> Rat(-1, 10), confidence |-> Rat(3, 5)],
     [expected_return |-> Zero, confidence |-> Rat(1, 2)]}
\* self.capital: the default of __init__ and a malformed, negative one.
ExecCapitals == {Int2Rat(10000), Int2Rat(-10000)}
ExecRiskLevels == {Rat(1, 5), Rat(9, 10)}
MacroSentiments == {Zero, One}

\* symbols = list(recommendations.keys())
Symbols == Keys(exec_call.recommendations)

\* The covariance matrix of the first k symbols, k = 1..MaxAssets: the
\* generator is reseeded on every call, so the matrix depends on k alone.
CovarianceTable ==
    ToSeq([k \in 1..MaxAssets |->
              calculate_covariance_matrix(
                  get_historical_returns(SymbolList(k), Days))],
          MaxAssets)
EmptyCovariance == calculate_covariance_matrix(<< >>)

\* A full book: the smallest universe whose clamped positions can sum to more
\* than the capital (every position is at most 30% of it) has two symbols
\* more than MaxAssets.
BookAssets == MaxAssets + 2
BookCovariance ==
    calculate_covariance_matrix(
        get_historical_returns(SymbolList(BookAssets), Days))

BookRecommendations ==
    {[expected_return |-> Rat(1, 2), confidence |-> Rat(19, 20)],
     [expected_return |-> Rat(1, 10), confidence |-> Rat(4, 5)]}

\* A run on a full book with the default capital.
BookInit ==
    /\ pc = "step1"
    /\ exec_call \in [capital : {Int2Rat(10000)},
                      recommendations :
                          [SymbolSet(BookAssets) -> BookRecommendations],
                      user_risk_level : ExecRiskLevels,
                      macro_sentiment : MacroSentiments]
    /\ np_random = 7
    /\ frame = [prices |-> None, covariance_matrix |-> None,
                volatilities |-> None, equilibrium_returns |-> None,
                expected_returns |-> None, positions |-> None,
                quantities |-> None]
    /\ exec_result = None
    /\ KellyIdle /\ RiskIdle /\ QuantityIdle /\ BLIdle /\ MoreIdle

ExecInit ==
    /\ pc = "step1"
    /\ \E k \in 0..MaxAssets :
           exec_call \in [capital : ExecCapitals,
                          recommendations : [SymbolSet(k) -> Recommendations],
                          user_risk_level : ExecRiskLevels,
                          macro_sentiment : MacroSentiments]
    /\ np_random = 7
    /\ frame = [prices |-> None, covariance_matrix |-> None,
                volatilities |-> None, equilibrium_returns |-> None,
                expected_returns |-> None, positions |-> None,
                quantities |-> None]
    /\ exec_result = None
    /\ KellyIdle /\ RiskIdle /\ QuantityIdle /\ BLIdle /\ MoreIdle

ExecStays == UNCHANGED <<exec_call, kellyVars, riskVars, qtyVars, blVars, moreVars>>

\* Step 1, the price service answers: it quotes some of the symbols.
FetchPrices ==
    /\ pc = "step1"
    /\ \E quoted \in SUBSET {Symbols[i] : i \in 1..Len(Symbols)} :
           frame' = [frame EXCEPT !.prices = get_crypto_prices(Symbols, quoted)]
    /\ pc' = "step2"
    /\ UNCHANGED <<np_random, exec_result>>
    /\ ExecStays

\* Step 1, the request fails: the mock prices are used.
FetchPricesFailed ==
    /\ pc = "step1"
    /\ frame' = [frame EXCEPT !.prices = mock_prices(Symbols)]
    /\ pc' = "step2"
    /\ UNCHANGED <<np_random, exec_result>>
    /\ ExecStays

\* Step 2: the historical returns, the covariance matrix and the
\* volatilities; printing volatilities.min() raises on an empty universe.
Covariance ==
    /\ pc = "step2"
    /\ LET cov == IF Len(Symbols) = 0 THEN EmptyCovariance
                  ELSE IF Len(Symbols) = BookAssets THEN BookCovariance
                  ELSE CovarianceTable[Len(Symbols)]
       IN  /\ frame' = [frame EXCEPT
                  !.covariance_matrix = cov,
                  !.volatilities =
                      ToSeq([i \in 1..cov.r |-> Sqrt(cov.e[i][i])], cov.r)]
    /\ np_random' = state_after_returns(Symbols, Days)
    /\ IF Len(Symbols) = 0
       THEN pc' = "raised" /\ exec_result' = Raised("ValueError")
       ELSE pc' = "step3" /\ UNCHANGED exec_result
    /\ ExecStays

\* Step 3: the equilibrium returns.
Equilibrium ==
    /\ pc = "step3"
    /\ LET eq == calculate_market_equilibrium(frame.prices, << >>)
       IN  frame' = [frame EXCEPT !.equilibrium_returns = eq.value]
    /\ pc' = "step4"
    /\ UNCHANGED <<np_random, exec_result>>
    /\ ExecStays

\* Step 4: the Black-Litterman posterior of the recommendations.
BlackLitterman ==
    /\ pc = "step4"
    /\ \E bl \in {black_litterman_model(
                      frame.equilibrium_returns,
                      frame.covariance_matrix,
                      [symbol \in DOMAIN exec_call.recommendations |->
                          exec_call.recommendations[symbol].expected_return],
                      [symbol \in DOMAIN exec_call.recommendations |->
                          exec_call.recommendations[symbol].confidence],
                      Symbols)} :
           IF bl.raised # None
           THEN /\ pc' = "raised"
                /\ exec_result' = bl
                /\ UNCHANGED frame
           ELSE /\ pc' = "step5"
                /\ frame' = [frame EXCEPT !.expected_returns = bl.value]
                /\ UNCHANGED exec_result
    /\ UNCHANGED np_random
    /\ ExecStays

\* Step 5: the Kelly position of every symbol.
KellySizing ==
    /\ pc = "step5"
    /\ frame' = [frame EXCEPT !.positions =
           [symbol \in DOMAIN exec_call.recommendations |->
               LET i == IndexOf(Symbols, symbol)
               IN  kelly_criterion(frame.expected_returns[i],
                                   exec_call.recommendations[symbol].confidence,
                                   frame.volatilities[i],
                                   exec_call.capital)]]
    /\ pc' = "step6"
    /\ UNCHANGED <<np_random, exec_result>>
    /\ ExecStays

\* Step 6: the macro adjustment.
MacroAdjust ==
    /\ pc = "step6"
    /\ frame' = [frame EXCEPT !.positions =
           adjust_for_macro_sentiment(frame.positions, exec_call.macro_sentiment)]
    /\ pc' = "step7"
    /\ UNCHANGED <<np_random, exec_result>>
    /\ ExecStays

\* Step 7: the risk constraints.
RiskConstraints ==
    /\ pc = "step7"
    /\ IF rescale_fails(
              clamp_positions(risk_scaled(frame.positions,
                                          exec_call.user_risk_level),
                              exec_call.capital),
              exec_call.capital)
       THEN /\ pc' = "raised"
            /\ exec_result' = Raised("ZeroDivisionError")
            /\ UNCHANGED frame
       ELSE /\ pc' = "step8"
            /\ frame' = [frame EXCEPT !.positions =
                   apply_risk_constraints(exec_call.capital, frame.positions,
                                          exec_call.user_risk_level)]
            /\ UNCHANGED exec_result
    /\ UNCHANGED np_random
    /\ ExecStays

\* Step 8: the quantities.
Quantities ==
    /\ pc = "step8"
    /\ LET q == calculate_quantities(frame.positions, frame.prices)
       IN  IF q.raised # None
           THEN /\ pc' = "raised"
                /\ exec_result' = q
                /\ UNCHANGED frame
           ELSE /\ pc' = "output"
                /\ frame' = [frame EXCEPT !.quantities = q.value]
                /\ UNCHANGED exec_result
    /\ UNCHANGED np_random
    /\ ExecStays

\* One record of the output map; quantities[symbol] is read unguarded.
output_record(symbol, total_allocated) ==
    [position_usd |-> frame.positions[symbol],
     quantity |-> frame.quantities[symbol],
     price |-> frame.prices[symbol],
     weight |-> IF Gt(total_allocated, Zero)
                THEN Div(frame.positions[symbol], total_allocated)
                ELSE Zero,
     expected_return |-> frame.expected_returns[IndexOf(Symbols, symbol)],
     confidence |-> exec_call.recommendations[symbol].confidence]

\* The final loop over symbols: a record for every non-zero position, and a
\* KeyError at the first such symbol that has no quantity.
Output ==
    /\ pc = "output"
    /\ LET traded == {symbol \in DOMAIN frame.positions :
                         frame.positions[symbol] # Zero}
           total_allocated == SumValues(frame.positions)
       IN  IF \E symbol \in traded : symbol \notin DOMAIN frame.quantities
           THEN /\ pc' = "raised"
                /\ exec_result' = Raised("KeyError")
           ELSE /\ pc' = "returned"
                /\ exec_result' =
                       Returned([symbol \in traded |->
                                    output_record(symbol, total_allocated)])
    /\ UNCHANGED <<np_random, frame>>
    /\ ExecStays

Next ==
    \/ FetchPrices
    \/ FetchPricesFailed
    \/ Covariance
    \/ Equilibrium
    \/ BlackLitterman
    \/ KellySizing
    \/ MacroAdjust
    \/ RiskConstraints
    \/ Quantities
    \/ Output

Spec == ExecInit /\ [][Next]_vars

\* The runs on at most MaxAssets symbols together with the runs on a full
\* book.
RunsInit == ExecInit \/ BookInit

SpecRuns == RunsInit /\ [][Next]_vars

SpecBook == BookInit /\ [][Next]_vars

(***************************************************************************)
(* execute_algorithm as a function of the returns sample it drew, for the   *)
(* invocations that run concurrently: every stage after the draw reads the  *)
(* invocation's own locals only.  The price service quotes every symbol and *)
(* the capital is positive.                                                 *)
(***************************************************************************)
quoted_prices(symbols) ==
    get_crypto_prices(symbols, {symbols[i] : i \in 1..Len(symbols)})

\* volatilities = np.sqrt(np.diag(covariance_matrix))
volatilities_of(covariance_matrix) ==
    ToSeq([i \in 1..covariance_matrix.r |-> Sqrt(covariance_matrix.e[i][i])],
          covariance_matrix.r)

\* Step 5 for every symbol.
kelly_positions(call, symbols, expected_returns, volatilities) ==
    [symbol \in DOMAIN call.recommendations |->
        kelly_criterion(expected_returns[IndexOf(symbols, symbol)],
                        call.recommendations[symbol].confidence,
                        volatilities[IndexOf(symbols, symbol)],
                        call.capital)]

\* Steps 6 and 7.
final_positions(call, positions) ==
    apply_risk_constraints(
        call.capital,
        adjust_for_macro_sentiment(positions, call.macro_sentiment),
        call.user_risk_level)

\* The final loop over symbols.
portfolio(call, symbols, prices, expected_returns, positions, quantities) ==
    IF \E symbol \in DOMAIN positions :
           positions[symbol] # Zero /\ symbol \notin DOMAIN quantities
    THEN Raised("KeyError")
    ELSE Returned(
             [symbol \in {x \in DOMAIN positions : positions[x] # Zero} |->
                 [position_usd |-> positions[symbol],
                  quantity |-> quantities[symbol],
                  price |-> prices[symbol],
                  weight |-> IF Gt(SumValues(positions), Zero)
                             THEN Div(positions[symbol], SumValues(positions))
                             ELSE Zero,
                  expected_return |->
                      expected_returns[IndexOf(symbols, symbol)],
                  confidence |-> call.recommendations[symbol].confidence]])

\* Step 8 and the final loop.
portfolio_of_positions(call, symbols, prices, expected_returns, positions) ==
    portfolio(call, symbols, prices, expected_returns, positions,
              calculate_quantities(positions, prices).value)

\* Steps 5 to 8.
portfolio_of_posterior(call, symbols, volatilities, bl) ==
    IF bl.raised # None THEN bl
    ELSE portfolio_of_positions(
             call, symbols, quoted_prices(symbols), bl.value,
             final_positions(
                 call,
                 kelly_positions(call, symbols, bl.value, volatilities)))

\* Steps 3 to 8.
portfolio_of_covariance(call, symbols, covariance_matrix) ==
    portfolio_of_posterior(
        call, symbols, volatilities_of(covariance_matrix),
        black_litterman_model(
            calculate_market_equilibrium(quoted_prices(symbols), << >>).value,
            covariance_matrix,
            [symbol \in DOMAIN call.recommendations |->
                call.recommendations[symbol].expected_return],
            [symbol \in DOMAIN call.recommendations |->
                call.recommendations[symbol].confidence],
            symbols))

\* Steps 2 (after the draw) to 8.
portfolio_of_returns(call, returns_df) ==
    portfolio_of_covariance(call, Keys(call.recommendations),
                            calculate_covariance_matrix(returns_df))

(***************************************************************************)
(* Two invocations of execute_algorithm in two threads of one process.      *)
(* They share numpy's global generator; np.random.seed and every            *)
(* np.random.normal call are atomic, and the threads may be switched        *)
(* between any two of them.                                                 *)
(***************************************************************************)
\* An invocation's universe holds at most MaxThreadAssets symbols.
MaxThreadAssets == 2

Threads == {"a", "b"}

\* The two universes are disjoint: "a" trades the first symbols of id_map,
\* "b" the symbols after them.
ThreadUniverse(t, k) ==
    IF t = "a" THEN SymbolSet(k)
    ELSE {Universe[MaxThreadAssets + i] : i \in 1..k}

ThreadCalls(t) ==
    UNION {[capital : {Int2Rat(10000)},
            recommendations :
                [ThreadUniverse(t, k) ->
                    {[expected_return |-> Rat(1, 2), confidence |-> Rat(7, 10)]}],
            user_risk_level : ExecRiskLevels,
            macro_sentiment : {Zero}] : k \in 1..MaxThreadAssets}

ConcurrentInit ==
    /\ pc = "threads"
    /\ \E a \in ThreadCalls("a"), b \in ThreadCalls("b") :
           threads = [t \in Threads |->
                         [pc |-> "seed", call |-> IF t = "a" THEN a ELSE b,
                          returns_df |-> << >>, result |-> None]]
    /\ np_random = 7
    /\ exec_call = None /\ frame = None /\ exec_result = None
    /\ KellyIdle /\ RiskIdle /\ QuantityIdle /\ BLIdle
    /\ MacroIdle /\ EquilibriumIdle /\ ReturnsIdle

ThreadStays ==
    UNCHANGED <<pc, exec_call, frame, exec_result, kellyVars, riskVars,
                qtyVars, blVars, macroVars, eqVars, histVars>>

\* np.random.seed(42)
ThreadSeed(t) ==
    /\ threads[t].pc = "seed"
    /\ np_random' = seed_state(42)
    /\ threads' = [threads EXCEPT ![t].pc = "draw"]
    /\ ThreadStays

\* daily_returns = np.random.normal(0.001, 0.05, days) for the next symbol.
ThreadDraw(t) ==
    /\ threads[t].pc = "draw"
    /\ Len(threads[t].returns_df) < Cardinality(DOMAIN threads[t].call.recommendations)
    /\ np_random' = advance(np_random, Days)
    /\ threads' = [threads EXCEPT
           ![t].returns_df = Append(@, normal_sample(np_random, Days))]
    /\ ThreadStays

\* The rest of execute_algorithm, from the covariance matrix to the return.
ThreadFinish(t) ==
    /\ threads[t].pc = "draw"
    /\ Len(threads[t].returns_df) = Cardinality(DOMAIN threads[t].call.recommendations)
    /\ threads' = [threads EXCEPT
           ![t].pc = "done",
           ![t].result = portfolio_of_returns(threads[t].call,
                                              threads[t].returns_df)]
    /\ UNCHANGED np_random
    /\ ThreadStays

ConcurrentNext ==
    \E t \in Threads : ThreadSeed(t) \/ ThreadDraw(t) \/ ThreadFinish(t)

SpecConcurrent == ConcurrentInit /\ [][ConcurrentNext]_vars

\* get_historical_returns is called at most MaxCalls times in a row.
MaxCalls == 2

\* Sequential calls of get_historical_returns with the same arguments; the
\* generator may be in any state before the first call, and other code may
\* draw from it between the calls.
ReturnsInit ==
    /\ pc = "hist_call"
    /\ hist_call \in [symbols : {SymbolList(k) : k \in 0..MaxAssets},
                      days : 0..Days]
    /\ hist_results = << >>
    /\ np_random \in 0..15
    /\ exec_call = None /\ frame = None /\ exec_result = None
    /\ KellyIdle /\ RiskIdle /\ QuantityIdle /\ BLIdle
    /\ MacroIdle /\ EquilibriumIdle /\ ThreadsIdle

\* One call: the generator state it found and the DataFrame it returned.
HistoricalReturns ==
    /\ pc = "hist_call"
    /\ Len(hist_results) < MaxCalls
    /\ hist_results' =
           Append(hist_results,
                  [before |-> np_random,
                   returns_df |-> get_historical_returns(hist_call.symbols,
                                                         hist_call.days)])
    /\ np_random' = state_after_returns(hist_call.symbols, hist_call.days)
    /\ UNCHANGED <<pc, hist_call, exec_call, frame, exec_result, kellyVars,
                   riskVars, qtyVars, blVars, macroVars, eqVars, threads>>

\* Other code draws one number from the global generator.
DrawElsewhere ==
    /\ pc = "hist_call"
    /\ Len(hist_results) < MaxCalls
    /\ np_random' = next_state(np_random)
    /\ UNCHANGED <<pc, histVars, exec_call, frame, exec_result, kellyVars,
                   riskVars, qtyVars, blVars, macroVars, eqVars, threads>>

ReturnsNext == HistoricalReturns \/ DrawElsewhere

SpecReturns == ReturnsInit /\ [][ReturnsNext]_vars

KellyDone == pc = "kelly_done"

\* C1: for capital >= 0 the position returned by kelly_criterion has magnitude
\* at most 0.25 * capital, whatever the expected return, the win probability
\* and the volatility.
C1_KellyBound ==
    (KellyDone /\ Ge(kelly_call.base_capital, Zero)) =>
        Le(Abs(kelly_result), Mul(Rat(1, 4), kelly_call.base_capital))

\* A call with positive capital whose position sits exactly on the 25% cap.
C1_Witness ==
    /\ KellyDone
    /\ Gt(kelly_call.base_capital, Zero)
    /\ Abs(kelly_result) = Mul(Rat(1, 4), kelly_call.base_capital)

\* C2 as stated: with capital > 0 the position is > 0 iff r > 0, = 0 iff
\* r = 0 and < 0 iff r < 0 (here only for win probabilities in [0, 1] and
\* volatilities >= 0, which is enough to refute it).
C2_SignIff ==
    (/\ KellyDone
     /\ Gt(kelly_call.base_capital, Zero)
     /\ Ge(kelly_call.win_probability, Zero)
     /\ Le(kelly_call.win_probability, One)
     /\ Ge(kelly_call.volatility, Zero)) =>
        /\ Gt(kelly_result, Zero) <=> Gt(kelly_call.expected_return, Zero)
        /\ kelly_result = Zero <=> kelly_call.expected_return = Zero
        /\ Lt(kelly_result, Zero) <=> Lt(kelly_call.expected_return, Zero)

\* C2 amended: with capital > 0 the position is > 0 only if r > 0, < 0 only
\* if r < 0, and it is 0 whenever r = 0; a non-zero r may be sized to 0.
C2_SignOnlyIf ==
    (KellyDone /\ Gt(kelly_call.base_capital, Zero)) =>
        /\ Gt(kelly_result, Zero) => Gt(kelly_call.expected_return, Zero)
        /\ Lt(kelly_result, Zero) => Lt(kelly_call.expected_return, Zero)
        /\ kelly_call.expected_return = Zero => kelly_result = Zero

\* A short call with positive capital that is sized to a negative position.
C2_Witness ==
    /\ KellyDone
    /\ Gt(kelly_call.base_capital, Zero)
    /\ Lt(kelly_call.expected_return, Zero)
    /\ Lt(kelly_result, Zero)

\* C3: an expected return of exactly 0 is sized to exactly 0, for every win
\* probability, volatility and capital.
C3_ZeroReturnZeroPosition ==
    (KellyDone /\ kelly_call.expected_return = Zero) => kelly_result = Zero

\* A zero-return call with positive capital, top confidence and no volatility.
C3_Witness ==
    /\ KellyDone
    /\ kelly_call.expected_return = Zero
    /\ kelly_call.base_capital = Int2Rat(10000)
    /\ kelly_call.win_probability = Rat(19, 20)
    /\ kelly_call.volatility = Zero
    /\ kelly_result = Zero

BLDone == pc = "bl_done"

\* tau * Sigma and Omega as black_litterman_model builds them for the call.
BLTauSigma == Scale(tau, bl_call.covariance_matrix)
BLOmega ==
    view_uncertainty(bl_call.covariance_matrix, bl_call.views,
                     bl_call.view_confidences, bl_call.symbols)

\* C4: whenever tau * Sigma or Omega is singular, black_litterman_model does
\* not raise and returns the equilibrium vector unchanged.
C4_SingularFallsBack ==
    (BLDone /\ (singular(BLTauSigma) \/ singular(BLOmega))) =>
        /\ bl_result.raised = None
        /\ bl_result.value = bl_call.equilibrium_returns

\* A call with a regular covariance matrix and a view of confidence 1, whose
\* Omega entry is 0, that returned the equilibrium vector.
C4_Witness ==
    /\ BLDone
    /\ ~singular(BLTauSigma)
    /\ BLOmega.r > 0
    /\ singular(BLOmega)
    /\ bl_result.raised = None
    /\ bl_result.value = bl_call.equilibrium_returns

\* A call with a zero-variance asset, whose tau * Sigma is singular, that
\* returned the equilibrium vector.
C4_WitnessZeroVariance ==
    /\ BLDone
    /\ \E i \in 1..Len(bl_call.symbols) :
           bl_call.covariance_matrix.e[i][i] = Zero
    /\ singular(BLTauSigma)
    /\ bl_result.raised = None
    /\ bl_result.value = bl_call.equilibrium_returns

RiskDone == pc = "risk_done"

\* The positions of the running call after the risk multiplier, and after the
\* per-asset clamp.
RiskScaled == risk_scaled(risk_call.positions, risk_call.user_risk_level)
RiskClamped == clamp_positions(RiskScaled, risk_call.capital)

\* C5: for capital >= 0 every returned position has magnitude at most
\* 0.30 * capital, rescaled or not, and a position that exceeded the maximum
\* keeps its sign: it is its sign times its magnitude, and it is not 0 when
\* capital > 0 (with capital = 0 the code returns sign * 0.0).
C5_MaxPositionSignKept ==
    (RiskDone /\ Ge(risk_call.capital, Zero)) =>
        \A symbol \in DOMAIN risk_result :
            /\ Le(Abs(risk_result[symbol]),
                  max_position_per_asset(risk_call.capital))
            /\ Gt(Abs(RiskScaled[symbol]),
                  max_position_per_asset(risk_call.capital)) =>
                /\ risk_result[symbol] =
                       Mul(Int2Rat(Sign(RiskScaled[symbol])),
                           Abs(risk_result[symbol]))
                /\ Gt(risk_call.capital, Zero) => risk_result[symbol] # Zero

\* A rescaled book in which a long position exceeded the maximum and is
\* returned positive.
C5_Witness ==
    /\ RiskDone
    /\ Gt(risk_call.capital, Zero)
    /\ Gt(SumValues(RiskClamped), risk_call.capital)
    /\ \E symbol \in DOMAIN risk_result :
           /\ Gt(RiskScaled[symbol], max_position_per_asset(risk_call.capital))
           /\ Gt(risk_result[symbol], Zero)
           /\ Lt(risk_result[symbol], max_position_per_asset(risk_call.capital))

\* A book in which a short position exceeded the maximum and is returned at
\* minus the maximum.
C5_WitnessShort ==
    /\ RiskDone
    /\ Gt(risk_call.capital, Zero)
    /\ \E symbol \in DOMAIN risk_result :
           /\ Lt(RiskScaled[symbol],
                 Neg(max_position_per_asset(risk_call.capital)))
           /\ risk_result[symbol] =
                  Neg(max_position_per_asset(risk_call.capital))

\* C6: for capital > 0 every non-zero returned position has magnitude at
\* least 0.01 * capital, also when the book was rescaled.
C6_MinPosition ==
    (RiskDone /\ Gt(risk_call.capital, Zero)) =>
        \A symbol \in DOMAIN risk_result :
            risk_result[symbol] # Zero =>
                Ge(Abs(risk_result[symbol]), min_position(risk_call.capital))

\* C7: for capital > 0 the signed sum of the returned positions is at most
\* capital, and it is exactly capital when the signed sum of the clamped
\* positions exceeded capital.
C7_BookTotal ==
    (RiskDone /\ Gt(risk_call.capital, Zero)) =>
        /\ Le(SumValues(risk_result), risk_call.capital)
        /\ Gt(SumValues(RiskClamped), risk_call.capital) =>
               SumValues(risk_result) = risk_call.capital

\* A book whose clamped positions summed to more than the capital and whose
\* returned positions sum to the capital.
C7_Witness ==
    /\ RiskDone
    /\ Gt(risk_call.capital, Zero)
    /\ Gt(SumValues(RiskClamped), risk_call.capital)
    /\ SumValues(risk_result) = risk_call.capital

QuantityDone == pc = "qty_done"

\* C8: for every symbol of the result of calculate_quantities, quantity times
\* the symbol's price is exactly the symbol's position, and the quantity has
\* the sign of the position.
C8_QuantityRoundTrip ==
    (QuantityDone /\ qty_result.raised = None) =>
        \A symbol \in DOMAIN qty_result.value :
            /\ Mul(qty_result.value[symbol], qty_call.prices[symbol]) =
                   qty_call.positions[symbol]
            /\ Sign(qty_result.value[symbol]) =
                   Sign(qty_call.positions[symbol])

\* A conversion that returned a short quantity at a price other than 1.
C8_Witness ==
    /\ QuantityDone
    /\ qty_result.raised = None
    /\ \E symbol \in DOMAIN qty_result.value :
           /\ Lt(qty_result.value[symbol], Zero)
           /\ qty_call.prices[symbol] = Int2Rat(3)

\* C9: calculate_quantities returns, without raising, an entry for exactly the
\* symbols whose position is non-zero and whose price is present and > 0.
C9_QuantityKeys ==
    QuantityDone =>
        /\ qty_result.raised = None
        /\ DOMAIN qty_result.value =
               {symbol \in DOMAIN qty_call.positions :
                   /\ qty_call.positions[symbol] # Zero
                   /\ symbol \in DOMAIN qty_call.prices
                   /\ Gt(qty_call.prices[symbol], Zero)}

\* A conversion of two non-zero positions, one priced at 0 and one missing
\* from the price map, that returned no entry.
C9_Witness ==
    /\ QuantityDone
    /\ qty_result.raised = None
    /\ qty_result.value = << >>
    /\ \E s1, s2 \in DOMAIN qty_call.positions :
           /\ qty_call.positions[s1] # Zero
           /\ s1 \in DOMAIN qty_call.prices
           /\ qty_call.prices[s1] = Zero
           /\ qty_call.positions[s2] # Zero
           /\ s2 \notin DOMAIN qty_call.prices

\* execute_algorithm has ended in or after its final loop, the only place
\* that raises KeyError.
ExecEnded == pc = "returned" \/ (pc = "raised" /\ exec_result.raised = "KeyError")

\* C10: when a symbol's price is unavailable (0) while its final position is
\* not 0, execute_algorithm does not raise and returns a map without that
\* symbol and with the records of the other traded symbols.
C10_UnpricedSymbolSkipped ==
    (/\ ExecEnded
     /\ \E symbol \in DOMAIN frame.positions :
            frame.positions[symbol] # Zero /\ frame.prices[symbol] = Zero) =>
        /\ exec_result.raised = None
        /\ DOMAIN exec_result.value =
               {symbol \in DOMAIN frame.positions :
                   frame.positions[symbol] # Zero /\ frame.prices[symbol] # Zero}

MacroDone == pc = "macro_done"

\* The call's sentiment lies in the nominal range [-1, 1].
MacroNominal ==
    /\ Ge(macro_call.macro_sentiment, Neg(One))
    /\ Le(macro_call.macro_sentiment, One)

\* C11 as stated: over [-1, 1] the multiplier of every position does not
\* fall as the sentiment rises, and it is 0.3 at -1 and 1.8 at 1.
C11_MacroRange ==
    (MacroDone /\ MacroNominal) =>
        \A symbol \in DOMAIN macro_result :
            /\ \A higher \in MacroLevels :
                   (Le(macro_call.macro_sentiment, higher) /\ Le(higher, One)) =>
                       Le(Abs(macro_result[symbol]),
                          Abs(adjust_for_macro_sentiment(
                                  macro_call.positions, higher)[symbol]))
            /\ macro_call.macro_sentiment = Neg(One) =>
                   macro_result[symbol] =
                       Mul(macro_call.positions[symbol], Rat(3, 10))
            /\ macro_call.macro_sentiment = One =>
                   macro_result[symbol] =
                       Mul(macro_call.positions[symbol], Rat(9, 5))

\* C11 amended: over [-1, 1] the multiplier of every position does not fall
\* as the sentiment rises, and it is 0.5 at -1 and 1.5 at 1.
C11_MacroMonotone ==
    (MacroDone /\ MacroNominal) =>
        \A symbol \in DOMAIN macro_result :
            /\ \A higher \in MacroLevels :
                   (Le(macro_call.macro_sentiment, higher) /\ Le(higher, One)) =>
                       Le(Abs(macro_result[symbol]),
                          Abs(adjust_for_macro_sentiment(
                                  macro_call.positions, higher)[symbol]))
            /\ macro_call.macro_sentiment = Neg(One) =>
                   macro_result[symbol] =
                       Mul(macro_call.positions[symbol], Rat(1, 2))
            /\ macro_call.macro_sentiment = One =>
                   macro_result[symbol] =
                       Mul(macro_call.positions[symbol], Rat(3, 2))

\* A call at sentiment -1 that halved a long and a short position.
C11_Witness ==
    /\ MacroDone
    /\ macro_call.macro_sentiment = Neg(One)
    /\ \E s1, s2 \in DOMAIN macro_result :
           /\ macro_call.positions[s1] = Int2Rat(40)
           /\ macro_result[s1] = Int2Rat(20)
           /\ macro_call.positions[s2] = Int2Rat(-40)
           /\ macro_result[s2] = Int2Rat(-20)

EquilibriumDone == pc = "eq_done"

\* C14: calculate_market_equilibrium never fails: for every price map and
\* every market-cap map it returns one entry per symbol of the price map,
\* each equal to risk_free_rate + 0.05.
C14_EquilibriumNeverFails ==
    EquilibriumDone =>
        /\ eq_result.raised = None
        /\ Len(eq_result.value) = Cardinality(DOMAIN eq_call.prices)
        /\ \A i \in 1..Len(eq_result.value) :
               eq_result.value[i] = Add(risk_free_rate, Rat(1, 20))

\* C15: a view set that is empty, or that holds a view on a symbol outside
\* the symbol list, is not an error: black_litterman_model does not raise and
\* returns one posterior per symbol of the list.
C15_MismatchedViewsReturn ==
    (/\ BLDone
     /\ \/ DOMAIN bl_call.views = {}
        \/ \E symbol \in DOMAIN bl_call.views :
               ~InList(bl_call.symbols, symbol)) =>
        /\ bl_result.raised = None
        /\ Len(bl_result.value) = Len(bl_call.symbols)

\* C16: with a negative capital execute_algorithm fails before any sizing or
\* constraint stage has run, and never returns positions.
C16_MalformedInputFailsFast ==
    Lt(exec_call.capital, Zero) =>
        pc \notin {"step6", "step7", "step8", "output", "returned"}

\* The risk-constraint stage of execute_algorithm has run: positions holds
\* the final positions.
ExecSized == pc \in {"step8", "output", "returned"}

\* The worked example: BTC +0.1 at confidence 0.8, ETH -0.1 at confidence
\* 0.6, capital 10000, risk level 0.9, macro sentiment 0, both prices quoted.
ExampleRun ==
    /\ ExecSized
    /\ exec_call.capital = Int2Rat(10000)
    /\ exec_call.user_risk_level = Rat(9, 10)
    /\ exec_call.macro_sentiment = Zero
    /\ DOMAIN exec_call.recommendations = {"BTC", "ETH"}
    /\ exec_call.recommendations["BTC"] =
           [expected_return |-> Rat(1, 10), confidence |-> Rat(4, 5)]
    /\ exec_call.recommendations["ETH"] =
           [expected_return |-> Rat(-1, 10), confidence |-> Rat(3, 5)]
    /\ frame.prices["BTC"] = Int2Rat(50000)
    /\ frame.prices["ETH"] = Int2Rat(3000)

\* C12 as stated: the worked example yields a strictly positive BTC position
\* and a strictly negative ETH position, each of magnitude at most 3000.
C12_ExampleStrict ==
    ExampleRun =>
        /\ Gt(frame.positions["BTC"], Zero)
        /\ Lt(frame.positions["ETH"], Zero)
        /\ Le(Abs(frame.positions["BTC"]), Int2Rat(3000))
        /\ Le(Abs(frame.positions["ETH"]), Int2Rat(3000))

\* C12 amended: the worked example yields a BTC position that is not negative
\* and an ETH position that is not positive, each of magnitude at most 3000.
C12_ExampleWeak ==
    ExampleRun =>
        /\ Ge(frame.positions["BTC"], Zero)
        /\ Le(frame.positions["ETH"], Zero)
        /\ Le(Abs(frame.positions["BTC"]), Int2Rat(3000))
        /\ Le(Abs(frame.positions["ETH"]), Int2Rat(3000))

\* The worked example has been sized: both posteriors are too small an edge
\* for the Kelly fraction, and both positions are 0.
C12_Witness ==
    /\ ExampleRun
    /\ pc = "returned"
    /\ Gt(frame.expected_returns[1], Zero)
    /\ Lt(frame.expected_returns[2], Zero)
    /\ frame.positions["BTC"] = Zero
    /\ frame.positions["ETH"] = Zero

\* C13: with an empty recommendations map execute_algorithm ends without
\* raising and returns a map that holds no non-zero position.
C13_NoViewsNoTrades ==
    (pc \in {"returned", "raised"} /\ DOMAIN exec_call.recommendations = {}) =>
        /\ exec_result.raised = None
        /\ \A symbol \in DOMAIN exec_result.value :
               exec_result.value[symbol].position_usd = Zero

\* C19: the returned map has a record for exactly the symbols whose final
\* position is not 0, and every weight is position_usd over the signed total
\* of the final positions, also when that total is negative.
C19_RecordsAndWeights ==
    pc = "returned" =>
        /\ DOMAIN exec_result.value =
               {symbol \in DOMAIN frame.positions :
                   frame.positions[symbol] # Zero}
        /\ SumValues(frame.positions) # Zero =>
               \A symbol \in DOMAIN exec_result.value :
                   exec_result.value[symbol].weight =
                       Div(exec_result.value[symbol].position_usd,
                           SumValues(frame.positions))

\* C20: the risk multiplier is 0.25 for levels below 0.25, 0.5 for levels in
\* [0.25, 0.5), 1.0 for levels in [0.5, 0.75) and 1.5 from 0.75 on, and the
\* returned book is the clamped and rescaled book of the positions that were
\* all multiplied by it.
C20_RiskMultiplierSteps ==
    RiskDone =>
        LET level == risk_call.user_risk_level
            stated == IF Lt(level, Rat(1, 4)) THEN Rat(1, 4)
                      ELSE IF Lt(level, Rat(1, 2)) THEN Rat(1, 2)
                      ELSE IF Lt(level, Rat(3, 4)) THEN One
                      ELSE Rat(3, 2)
        IN  risk_result =
                rescale_book(
                    clamp_positions(
                        [symbol \in DOMAIN risk_call.positions |->
                            Mul(risk_call.positions[symbol], stated)],
                        risk_call.capital),
                    risk_call.capital)

\* A call at level 0.25 exactly, whose position of 40 is returned as 20: the
\* multiplier is the 0.5 of [0.25, 0.5), not the 0.25 of the levels below.
C20_Witness ==
    /\ RiskDone
    /\ risk_call.user_risk_level = Rat(1, 4)
    /\ risk_call.capital = Int2Rat(100)
    /\ \E symbol \in DOMAIN risk_result :
           /\ risk_call.positions[symbol] = Int2Rat(40)
           /\ risk_result[symbol] = Int2Rat(20)

\* C18: sequential calls of get_historical_returns with the same symbols
\* and days return the same sample, whatever the generator state before the
\* call, and every symbol's series has exactly days entries.
C18_ReturnsDeterministic ==
    pc = "hist_call" =>
        \A i \in 1..Len(hist_results) :
            /\ \A j \in 1..Len(hist_results) :
                   hist_results[i].returns_df = hist_results[j].returns_df
            /\ Len(hist_results[i].returns_df) = Len(hist_call.symbols)
            /\ \A k \in 1..Len(hist_results[i].returns_df) :
                   Len(hist_results[i].returns_df[k]) = hist_call.days

\* Two calls for two symbols that found the generator in different states and
\* returned the same sample of Days returns per symbol.
C18_Witness ==
    /\ pc = "hist_call"
    /\ Len(hist_results) = 2
    /\ hist_results[1].before # hist_results[2].before
    /\ hist_results[1].returns_df = hist_results[2].returns_df
    /\ Len(hist_results[1].returns_df) = 2
    /\ hist_call.days = Days
    /\ Len(hist_results[1].returns_df[2]) = Days

\* C17: under every interleaving, each of two concurrent invocations returns
\* what it returns when it runs alone.
C17_ThreadsIsolated ==
    pc = "threads" =>
        \A t \in Threads :
            threads[t].pc = "done" =>
                threads[t].result =
                    portfolio_of_returns(
                        threads[t].call,
                        get_historical_returns(
                            Keys(threads[t].call.recommendations), Days))

\* C21: for every sentiment, also outside [-1, 1], the result has the keys of
\* the positions and every position is multiplied by the same factor
\* m = clamp(1 + 0.5 * macro_sentiment, 0.3, 1.8), which is strictly positive,
\* so that every position keeps its sign.
C21_MacroUniformPositive ==
    MacroDone =>
        LET raw == Add(One, Mul(Rat(1, 2), macro_call.macro_sentiment))
            m == IF Lt(raw, Rat(3, 10)) THEN Rat(3, 10)
                 ELSE IF Gt(raw, Rat(9, 5)) THEN Rat(9, 5)
                 ELSE raw
        IN  /\ Gt(m, Zero)
            /\ DOMAIN macro_result = DOMAIN macro_call.positions
            /\ \A symbol \in DOMAIN macro_result :
                   /\ macro_result[symbol] =
                          Mul(macro_call.positions[symbol], m)
                   /\ Sign(macro_result[symbol]) =
                          Sign(macro_call.positions[symbol])

\* A call at sentiment -2, below the nominal range, that scaled a long and a
\* short position by the floor 0.3.
C21_Witness ==
    /\ MacroDone
    /\ macro_call.macro_sentiment = Int2Rat(-2)
    /\ \E s1, s2 \in DOMAIN macro_result :
           /\ macro_call.positions[s1] = Int2Rat(40)
           /\ macro_result[s1] = Int2Rat(12)
           /\ macro_call.positions[s2] = Int2Rat(-40)
           /\ macro_result[s2] = Int2Rat(-12)

\* The Kelly positions of the run, as step 5 computes them from the posterior
\* and the volatilities.
KellyOfRun ==
    kelly_positions(exec_call, Symbols, frame.expected_returns,
                    frame.volatilities)

\* The Kelly positions times macro_multiplier * risk_multiplier.
MultipliedOfRun ==
    [symbol \in DOMAIN exec_call.recommendations |->
        Mul(KellyOfRun[symbol],
            Mul(macro_multiplier(exec_call.macro_sentiment),
                risk_multiplier(exec_call.user_risk_level)))]

\* What the positions and quantities of the run hold after each stage.
C22_Stages ==
    /\ pc = "step6" => frame.positions = KellyOfRun
    /\ pc = "step7" =>
           frame.positions =
               [symbol \in DOMAIN exec_call.recommendations |->
                   Mul(KellyOfRun[symbol],
                       macro_multiplier(exec_call.macro_sentiment))]
    /\ ExecSized =>
           frame.positions =
               rescale_book(clamp_positions(MultipliedOfRun, exec_call.capital),
                            exec_call.capital)
    /\ pc \in {"output", "returned"} =>
           \A symbol \in DOMAIN frame.quantities :
               frame.quantities[symbol] =
                   Div(rescale_book(clamp_positions(MultipliedOfRun,
                                                    exec_call.capital),
                                    exec_call.capital)[symbol],
                       frame.prices[symbol])

\* The sizing stages follow each other: Kelly, macro, risk, quantities.
C22_Order ==
    /\ pc = "step5" => pc' = "step6"
    /\ pc = "step6" => pc' = "step7"
    /\ pc = "step7" => pc' \in {"step8", "raised"}
    /\ pc = "step8" => pc' \in {"output", "raised"}

\* C22: the stages run in the order Kelly sizing, macro adjustment, risk
\* multiplier, per-asset clamp, book-level rescaling, quantity conversion:
\* the clamp sees every Kelly position times macro_multiplier *
\* risk_multiplier, and the quantities are those of the rescaled positions.
C22_StageOrder == []C22_Stages /\ [][C22_Order]_vars

\* A returned run at macro multiplier 1.5 and risk multiplier 1.5 in which a
\* position was clamped, the book was rescaled and a quantity was computed.
C22_Witness ==
    /\ pc = "returned"
    /\ exec_call.macro_sentiment = One
    /\ exec_call.user_risk_level = Rat(9, 10)
    /\ Gt(SumValues(clamp_positions(MultipliedOfRun, exec_call.capital)),
          exec_call.capital)
    /\ \E symbol \in DOMAIN frame.quantities :
           /\ Gt(MultipliedOfRun[symbol],
                 max_position_per_asset(exec_call.capital))
           /\ Lt(frame.positions[symbol],
                 max_position_per_asset(exec_call.capital))
           /\ Gt(frame.quantities[symbol], Zero)

\* C23: when every view is on a symbol of the list, with a confidence in
\* [0, 1], every diagonal entry of Omega is strictly positive and Omega is
\* invertible.
C23_OmegaPositive ==
    (/\ BLDone
     /\ \A symbol \in DOMAIN bl_call.views :
            /\ InList(bl_call.symbols, symbol)
            /\ Ge(confidence_of(bl_call.view_confidences, symbol), Zero)
            /\ Le(confidence_of(bl_call.view_confidences, symbol), One)) =>
        /\ \A i \in 1..BLOmega.r : Gt(BLOmega.e[i][i], Zero)
        /\ ~singular(BLOmega)

\* The call returned a posterior and symbol number j of the list has no view.
NoViewOn(j) ==
    /\ BLDone
    /\ bl_result.raised = None
    /\ bl_call.symbols[j] \notin DOMAIN bl_call.views

C25_WinProbabilityClamped ==
    KellyDone =>
        /\ Lt(kelly_call.win_probability, Rat(1, 2)) =>
               kelly_result = kelly_criterion(kelly_call.expected_return,
                                              Rat(1, 2),
                                              kelly_call.volatility,
                                              kelly_call.base_capital)
        /\ Gt(kelly_call.win_probability, Rat(19, 20)) =>
               kelly_result = kelly_criterion(kelly_call.expected_return,
                                              Rat(19, 20),
                                              kelly_call.volatility,
                                              kelly_call.base_capital)

\* A call at win probability 0.3, expected return 0.6 and no volatility that
\* is sized as at win probability 0.5: a sixth of the capital, below the cap.
C25_Witness ==
    /\ KellyDone
    /\ kelly_call.win_probability = Rat(3, 10)
    /\ kelly_call.expected_return = Rat(3, 5)
    /\ kelly_call.volatility = Zero
    /\ kelly_call.base_capital = Int2Rat(10000)
    /\ kelly_result = Rat(5000, 3)

\* A call at win probability 1, expected return 0.1 and volatility 1.7 that
\* is sized as at win probability 0.95: 7.5% of the capital.
C25_WitnessAbove ==
    /\ KellyDone
    /\ kelly_call.win_probability = One
    /\ kelly_call.expected_return = Rat(1, 10)
    /\ kelly_call.volatility = Rat(17, 10)
    /\ kelly_call.base_capital = Int2Rat(10000)
    /\ kelly_result = Int2Rat(750)

\* C26: for capital >= 0 and the same expected return and win probability,
\* the magnitude of the position does not increase when the volatility
\* increases, and from volatility 1.8 on the dampening factor is its floor
\* 0.1: the position is the one of volatility 1.8.
C26_VolatilityDampens ==
    (KellyDone /\ Ge(kelly_call.base_capital, Zero)) =>
        /\ \A higher \in Volatilities :
               Le(kelly_call.volatility, higher) =>
                   Le(Abs(kelly_criterion(kelly_call.expected_return,
                                          kelly_call.win_probability,
                                          higher,
                                          kelly_call.base_capital)),
                      Abs(kelly_result))
        /\ Ge(kelly_call.volatility, Rat(9, 5)) =>
               /\ volatility_adjustment(kelly_call.volatility) = Rat(1, 10)
               /\ kelly_result = kelly_criterion(kelly_call.expected_return,
                                                 kelly_call.win_probability,
                                                 Rat(9, 5),
                                                 kelly_call.base_capital)

\* A call at volatility 2, expected return 0.1 and win probability 0.95 that
\* is sized at the floor, 5% of the capital, below the 7.5% of volatility 1.7.
C26_Witness ==
    /\ KellyDone
    /\ kelly_call.volatility = Int2Rat(2)
    /\ kelly_call.expected_return = Rat(1, 10)
    /\ kelly_call.win_probability = Rat(19, 20)
    /\ kelly_call.base_capital = Int2Rat(10000)
    /\ kelly_result = Int2Rat(500)
    /\ kelly_criterion(Rat(1, 10), Rat(19, 20), Rat(17, 10), Int2Rat(10000)) =
           Int2Rat(750)

\* C27: for capital > 0 and 0 < |r| < 1 the position is not 0 if and only
\* if |r| > 1 - p', with p' the win probability clamped to [0.5, 0.95]; so
\* every expected return with |r| <= 0.05 is sized to 0.
C27_EdgeThreshold ==
    (/\ KellyDone
     /\ Gt(kelly_call.base_capital, Zero)
     /\ Gt(Abs(kelly_call.expected_return), Zero)
     /\ Lt(Abs(kelly_call.expected_return), One)) =>
        LET p == kelly_call.win_probability
            clamped == IF Lt(p, Rat(1, 2)) THEN Rat(1, 2)
                       ELSE IF Gt(p, Rat(19, 20)) THEN Rat(19, 20)
                       ELSE p
        IN  /\ kelly_result # Zero <=>
                   Gt(Abs(kelly_call.expected_return), Sub(One, clamped))
            /\ Le(Abs(kelly_call.expected_return), Rat(1, 20)) =>
                   kelly_result = Zero

\* A short call at expected return -0.05 and win probability 1, with no
\* volatility, that is sized to 0.
C27_Witness ==
    /\ KellyDone
    /\ kelly_call.base_capital = Int2Rat(10000)
    /\ kelly_call.expected_return = Rat(-1, 20)
    /\ kelly_call.win_probability = One
    /\ kelly_call.volatility = Zero
    /\ kelly_result = Zero

\* A call at expected return 0.6 and win probability 0.5, above the
\* threshold, that is sized to a sixth of the capital.
C27_WitnessAbove ==
    /\ KellyDone
    /\ kelly_call.base_capital = Int2Rat(10000)
    /\ kelly_call.expected_return = Rat(3, 5)
    /\ kelly_call.win_probability = Rat(1, 2)
    /\ kelly_call.volatility = Zero
    /\ kelly_result = Rat(5000, 3)

\* C28: for capital > 0 and the same win probability and volatility, the
\* magnitude of the position does not decrease when |r| increases, over all
\* |r| >= 0 and across |r| = 1.
C28_MonotoneInReturn ==
    (KellyDone /\ Gt(kelly_call.base_capital, Zero)) =>
        \A higher \in ExpectedReturns :
            Le(Abs(kelly_call.expected_return), Abs(higher)) =>
                Le(Abs(kelly_result),
                   Abs(kelly_criterion(higher,
                                       kelly_call.win_probability,
                                       kelly_call.volatility,
                                       kelly_call.base_capital)))

\* C29: for capital > 0 every returned record has a position_usd of the sign
\* of its expected_return and a quantity of the sign of its position_usd,
\* and no stage after the Kelly sizing has flipped a position's direction.
C29_DirectionKept ==
    (pc = "returned" /\ Gt(exec_call.capital, Zero)) =>
        /\ \A symbol \in DOMAIN exec_result.value :
               /\ Sign(exec_result.value[symbol].position_usd) =
                      Sign(exec_result.value[symbol].expected_return)
               /\ Sign(exec_result.value[symbol].quantity) =
                      Sign(exec_result.value[symbol].position_usd)
        /\ \A symbol \in DOMAIN frame.positions :
               Sign(frame.positions[symbol]) \in {0, Sign(KellyOfRun[symbol])}

\* A returned run with a long and a short record: the short one has a
\* negative posterior, was clamped to minus the maximum and has a negative
\* quantity.
C29_Witness ==
    /\ pc = "returned"
    /\ Gt(exec_call.capital, Zero)
    /\ \E s1, s2 \in DOMAIN exec_result.value :
           /\ Gt(exec_result.value[s1].position_usd, Zero)
           /\ Gt(exec_result.value[s1].quantity, Zero)
           /\ Lt(exec_result.value[s2].expected_return, Zero)
           /\ Lt(MultipliedOfRun[s2],
                 Neg(max_position_per_asset(exec_call.capital)))
           /\ exec_result.value[s2].position_usd =
                  Neg(max_position_per_asset(exec_call.capital))
           /\ Lt(exec_result.value[s2].quantity, Zero)

\* A returned run whose book was rescaled: every record is long, below the
\* maximum, with a positive quantity.
C29_WitnessRescaled ==
    /\ pc = "returned"
    /\ Gt(SumValues(clamp_positions(MultipliedOfRun, exec_call.capital)),
          exec_call.capital)
    /\ DOMAIN exec_result.value # {}
    /\ \A symbol \in DOMAIN exec_result.value :
           /\ Gt(exec_result.value[symbol].position_usd, Zero)
           /\ Gt(exec_result.value[symbol].quantity, Zero)

\* C30: for capital > 0 and a book of at most three symbols the book-level
\* rescaling is never applied: the clamped positions do not sum to more than
\* the capital and the result is exactly the risk-multiplied, clamped book.
C30_SmallBookNotRescaled ==
    (/\ RiskDone
     /\ Gt(risk_call.capital, Zero)
     /\ Cardinality(DOMAIN risk_call.positions) <= 3) =>
        /\ Le(SumValues(RiskClamped), risk_call.capital)
        /\ risk_result = RiskClamped

\* A book of three long positions that were all clamped to the maximum: they
\* sum to 90% of the capital and are returned as clamped.
C30_Witness ==
    /\ RiskDone
    /\ risk_call.capital = Int2Rat(100)
    /\ Cardinality(DOMAIN risk_call.positions) = 3
    /\ \A symbol \in DOMAIN risk_call.positions :
           /\ Gt(RiskScaled[symbol], max_position_per_asset(risk_call.capital))
           /\ risk_result[symbol] = Int2Rat(30)

=============================================================================
